---- MODULE Spec2Model ----
(***************************************************************************)
(* SM2 backend adapter (src/elliptic/curves/sm2.rs) of the curv library:   *)
(* Sm2Scalar and Sm2Point, their constructors, arithmetic and wire codecs. *)
(*                                                                         *)
(* The 256-bit curve is scaled down so that every value can be enumerated: *)
(* a byte is a digit in 0..ByteBase-1, a field element or scalar is        *)
(* ScalarLength digits wide, and the curve is y^2 = x^3 - 3x + b over a    *)
(* small prime field with a prime number of points (cofactor 1), like SM2. *)
(* The relations the code relies on are kept:                              *)
(*   GROUP_ORDER < FieldModulus < ByteBase^ScalarLength,                   *)
(*   FieldModulus % 4 = 3, EQUATION_A = FieldModulus - 3,                  *)
(*   the SEC1 tags 0, 2, 3, 4, 5 are bytes and at least one byte is no tag.*)
(***************************************************************************)
EXTENDS Integers, Sequences, FiniteSets, TLC

VARIABLES
    call,     \* the last completed call: [op, self, arg, chained, ret]
    cur,      \* the caller's current value: [ty, v], what `let v = <call>` bound
    prev,     \* the call that produced the operand `call` consumed: [op, in]
    pc,       \* "idle", inside Sm2Scalar::random ("fill", "from_repr"), "panicked"
    bytes,    \* Sm2Scalar::random's local `bytes`
    retries   \* samples the running/last Sm2Scalar::random discarded (saturating)

vars == <<call, cur, prev, pc, bytes, retries>>

----------------------------------------------------------------------------
(* Bounds of the model *)

\* longest byte string handed to a deserializer from outside
MaxLen == 6
\* integers handed to from_bigint are -MaxBigInt..MaxBigInt, coordinates 0..MaxBigInt
MaxBigInt == 38
\* the count of discarded samples saturates here
MaxRetries == 2

----------------------------------------------------------------------------
(* Scaled program constants *)

\* u8: a byte takes the values 0..ByteBase-1
ByteBase == 6
\* type ScalarLength = typenum::U32
ScalarLength == 2
\* type CompressedPointLength = typenum::U33: 1 tag byte + one field element
CompressedPointLength == 3
\* type UncompressedPointLength = typenum::U65: 1 tag byte + two field elements
UncompressedPointLength == 5
\* GROUP_ORDER_HEX: the prime order of the group
GROUP_ORDER == 29
\* the sm2 crate's field modulus p, p % 4 = 3
FieldModulus == 31
\* the sm2 crate's curve equation y^2 = x^3 + ax + b, a = p - 3
EQUATION_A == 28
EQUATION_B == 15
\* AffinePoint::generator()
GeneratorX == 3
GeneratorY == 8

----------------------------------------------------------------------------
(* Byte strings and BigInt conversions (crate::arithmetic, crate::BigInt)   *)

Byte == 0 .. (ByteBase - 1)

BytesOfLen(k) == [1 .. k -> Byte]

\* [0u8; N]
ZeroBytes(k) == [i \in 1 .. k |-> 0]

\* BigInt::from_bytes: the big-endian value of a byte string
RECURSIVE BigInt_from_bytes(_)
BigInt_from_bytes(b) ==
    IF Len(b) = 0 THEN 0
    ELSE BigInt_from_bytes(SubSeq(b, 1, Len(b) - 1)) * ByteBase + b[Len(b)]

\* BigInt::to_bytes: the shortest big-endian byte string of a magnitude
RECURSIVE BigInt_to_bytes(_)
BigInt_to_bytes(n) ==
    IF n = 0 THEN << >>
    ELSE IF n < 0 THEN BigInt_to_bytes(0 - n)
    ELSE Append(BigInt_to_bytes(n \div ByteBase), n % ByteBase)

\* BigInt::to_bytes_array::<N>: None when the value needs more than N bytes,
\* else the value left-padded with zeros to N bytes
BigInt_to_bytes_array(n, N) ==
    LET b == BigInt_to_bytes(n) IN
    IF Len(b) > N THEN [is_some |-> FALSE, value |-> << >>]
    ELSE [is_some |-> TRUE, value |-> ZeroBytes(N - Len(b)) \o b]

\* BigInt::modulus: the representative in [0, m) (floor modulus)
BigInt_modulus(n, m) == ((n % m) + m) % m

----------------------------------------------------------------------------
(* The native engine: sm2::Scalar                                           *)

RECURSIVE ModPow(_, _, _)
ModPow(a, e, m) ==
    IF e = 0 THEN 1 % m
    ELSE IF e % 2 = 0 THEN ModPow((a * a) % m, e \div 2, m)
    ELSE (a * ModPow((a * a) % m, e \div 2, m)) % m

\* subtle::CtOption::new(value, is_some)
CtOption(value, is_some) == [is_some |-> is_some, value |-> value]

\* Scalar::from_repr: Some exactly for a canonical encoding (value < order)
Scalar_from_repr(b) ==
    LET v == BigInt_from_bytes(b) IN CtOption(v, v < GROUP_ORDER)

\* Scalar::to_bytes: the canonical fixed-width big-endian encoding
Scalar_to_bytes(fe) ==
    [i \in 1 .. ScalarLength |->
        (fe \div (ByteBase ^ (ScalarLength - i))) % ByteBase]

Scalar_add(a, b) == (a + b) % GROUP_ORDER
Scalar_sub(a, b) == (a + GROUP_ORDER - b) % GROUP_ORDER
Scalar_mul(a, b) == (a * b) % GROUP_ORDER
Scalar_neg(a) == (GROUP_ORDER - a) % GROUP_ORDER
\* Scalar::invert: None exactly for zero
Scalar_invert(a) == CtOption(ModPow(a, GROUP_ORDER - 2, GROUP_ORDER), a # 0)

----------------------------------------------------------------------------
(* The native engine: the field, sec1::EncodedPoint, sm2::AffinePoint       *)

\* FieldElement::from_repr: Some exactly for a value below the field modulus
FieldElement_from_repr(b) ==
    LET v == BigInt_from_bytes(b) IN CtOption(v, v < FieldModulus)

\* FieldElement::to_repr: fixed-width big-endian
FieldElement_to_repr(x) ==
    [i \in 1 .. ScalarLength |->
        (x \div (ByteBase ^ (ScalarLength - i))) % ByteBase]

FAdd(a, b) == (a + b) % FieldModulus
FSub(a, b) == (a + FieldModulus - b) % FieldModulus
FMul(a, b) == (a * b) % FieldModulus
FNeg(a) == (FieldModulus - a) % FieldModulus
FInv(a) == ModPow(a, FieldModulus - 2, FieldModulus)

\* x^3 + ax + b, the right-hand side of the curve equation
CurveRhs(x) == FAdd(FAdd(FMul(FMul(x, x), x), FMul(EQUATION_A, x)), EQUATION_B)

\* FieldElement::sqrt for p % 4 = 3: the candidate a^((p+1)/4), Some when it squares to a
FieldElement_sqrt(a) ==
    LET r == ModPow(a, (FieldModulus + 1) \div 4, FieldModulus)
    IN  CtOption(r, FMul(r, r) = a)

\* AffinePoint { x, y, infinity }
Affine(x, y) == [x |-> x, y |-> y, infinity |-> 0]
\* AffinePoint::identity()
AffineIdentity == [x |-> 0, y |-> 0, infinity |-> 1]
\* AffinePoint::generator()
AffineGenerator == Affine(GeneratorX, GeneratorY)
\* AffinePoint::is_identity
Affine_is_identity(P) == P.infinity = 1

\* the curve equation, for a value of the affine type
OnCurve(P) ==
    /\ P.infinity = 0
    /\ P.x \in 0 .. (FieldModulus - 1)
    /\ P.y \in 0 .. (FieldModulus - 1)
    /\ FMul(P.y, P.y) = CurveRhs(P.x)

\* -AffinePoint
Affine_neg(P) == IF P.infinity = 1 THEN P ELSE Affine(P.x, FNeg(P.y))

\* ProjectivePoint + AffinePoint, to_affine(): the group law
Affine_add(P, Q) ==
    IF P.infinity = 1 THEN Q
    ELSE IF Q.infinity = 1 THEN P
    ELSE IF P.x = Q.x /\ FAdd(P.y, Q.y) = 0 THEN AffineIdentity
    ELSE
        LET l == IF P.x = Q.x
                 THEN FMul(FAdd(FMul(3, FMul(P.x, P.x)), EQUATION_A), FInv(FMul(2, P.y)))
                 ELSE FMul(FSub(Q.y, P.y), FInv(FSub(Q.x, P.x)))
            x3 == FSub(FSub(FMul(l, l), P.x), Q.x)
            y3 == FSub(FMul(l, FSub(P.x, x3)), P.y)
        IN  Affine(x3, y3)

\* AffinePoint * Scalar, to_affine()
RECURSIVE Affine_mul(_, _)
Affine_mul(P, k) ==
    IF k = 0 THEN AffineIdentity
    ELSE IF k % 2 = 0 THEN Affine_mul(Affine_add(P, P), k \div 2)
    ELSE Affine_add(P, Affine_mul(Affine_add(P, P), k \div 2))

\* sec1::Tag::from_u8 and Tag::message_len: the encoded length a tag byte announces,
\* 0 for a byte that is no tag
Tag_message_len(t) ==
    IF t = 0 THEN 1
    ELSE IF t \in {2, 3, 5} THEN 1 + ScalarLength
    ELSE IF t = 4 THEN 1 + 2 * ScalarLength
    ELSE 0

\* sec1::EncodedPoint::from_bytes: Err for empty input, an invalid tag, or a length
\* other than the one the tag announces
EncodedPoint_from_bytes(b) ==
    IF Len(b) = 0 THEN [is_ok |-> FALSE, value |-> << >>]
    ELSE IF Tag_message_len(b[1]) = 0 THEN [is_ok |-> FALSE, value |-> << >>]
    ELSE IF Len(b) # Tag_message_len(b[1]) THEN [is_ok |-> FALSE, value |-> << >>]
    ELSE [is_ok |-> TRUE, value |-> b]

\* sec1::EncodedPoint::from_affine_coordinates(x, y, compress)
EncodedPoint_from_affine_coordinates(xb, yb, compress) ==
    IF compress
    THEN << 2 + (yb[Len(yb)] % 2) >> \o xb
    ELSE << 4 >> \o xb \o yb

\* AffinePoint::decompress(x_bytes, y_is_odd)
Affine_decompress(xb, y_is_odd) ==
    LET x == FieldElement_from_repr(xb)
        beta == FieldElement_sqrt(CurveRhs(x.value))
        y == IF (beta.value % 2 = 1) = y_is_odd THEN beta.value ELSE FNeg(beta.value)
    IN  CtOption(Affine(x.value, y), x.is_some /\ beta.is_some)

\* AffinePoint::from_encoded_point, by the encoding's tag
Affine_from_encoded_point(e) ==
    LET t == e[1]
        xb == SubSeq(e, 2, 1 + ScalarLength)
        yb == SubSeq(e, 2 + ScalarLength, 1 + 2 * ScalarLength)
    IN  IF t = 0 THEN CtOption(AffineIdentity, TRUE)
        ELSE IF t = 5 THEN Affine_decompress(xb, FALSE)
        ELSE IF t \in {2, 3} THEN Affine_decompress(xb, t = 3)
        ELSE
            LET x == FieldElement_from_repr(xb)
                y == FieldElement_from_repr(yb)
            IN  CtOption(Affine(x.value, y.value),
                         /\ x.is_some
                         /\ y.is_some
                         /\ FMul(y.value, y.value) = CurveRhs(x.value))

\* AffinePoint::to_encoded_point(compress): the one-byte identity encoding for the
\* identity, else tag and coordinates
Affine_to_encoded_point(P, compress) ==
    IF Affine_is_identity(P) THEN << 0 >>
    ELSE EncodedPoint_from_affine_coordinates(
            FieldElement_to_repr(P.x), FieldElement_to_repr(P.y), compress)

\* EncodedPoint::x(): None for the identity
EncodedPoint_x(e) ==
    IF e[1] = 0 THEN CtOption(<< >>, FALSE)
    ELSE CtOption(SubSeq(e, 2, 1 + ScalarLength), TRUE)

\* EncodedPoint::y(): None for the identity and for a compressed encoding
EncodedPoint_y(e) ==
    IF e[1] # 4 THEN CtOption(<< >>, FALSE)
    ELSE CtOption(SubSeq(e, 2 + ScalarLength, 1 + 2 * ScalarLength), TRUE)

----------------------------------------------------------------------------------------------------------------------------------------------
(* Values and return values                                                 *)

\* struct Sm2Scalar { purpose, fe }
Sm2Scalar(purpose, fe) == [purpose |-> purpose, fe |-> fe]

\* struct Sm2Point { purpose, ge }
Sm2Point(purpose, ge) == [purpose |-> purpose, ge |-> ge]

\* A value with its type: `ty` names the field that holds it, the others are blank.
Nothing ==
    [ty |-> "None", int |-> 0, bool |-> FALSE, bytes |-> << >>,
     coords |-> [x |-> 0, y |-> 0],
     scalar |-> Sm2Scalar("", 0),
     point |-> Sm2Point("", AffineIdentity)]

Unit == [Nothing EXCEPT !.ty = "Unit"]
TInt(n) == [Nothing EXCEPT !.ty = "BigInt", !.int = n]
TBool(x) == [Nothing EXCEPT !.ty = "Bool", !.bool = x]
TBytes(b) == [Nothing EXCEPT !.ty = "Bytes", !.bytes = b]
TCoords(x, y) == [Nothing EXCEPT !.ty = "Coords", !.coords = [x |-> x, y |-> y]]
TScalar(s) == [Nothing EXCEPT !.ty = "Scalar", !.scalar = s]
TPoint(p) == [Nothing EXCEPT !.ty = "Point", !.point = p]

\* a call that returned a plain value
Value(x) == [tag |-> "Value", err |-> "", val |-> x]
\* Result::Ok, Result::Err
Ok(x) == [tag |-> "Ok", err |-> "", val |-> x]
Err(e) == [tag |-> "Err", err |-> e, val |-> Nothing]
\* Option::Some, Option::None
Some(x) == [tag |-> "Some", err |-> "", val |-> x]
None == [tag |-> "None", err |-> "", val |-> Nothing]
\* a call that panicked instead of returning (unwrap, expect, assert)
Panic(msg) == [tag |-> "Panic", err |-> msg, val |-> Nothing]
\* a call that has not returned yet
Pending == [tag |-> "Pending", err |-> "", val |-> Nothing]

----------
(* impl ECScalar for Sm2Scalar                                              *)

\* the value Sm2Scalar::random builds from an accepted sample
Sm2Scalar_random_result(element) == Sm2Scalar("random", element.value)

Sm2Scalar_zero == Sm2Scalar("zero", 0)

Sm2Scalar_is_zero(s) == s.fe = 0

Sm2Scalar_group_order == GROUP_ORDER

\* from_bigint without the reduction modulo the group order
Sm2Scalar_from_bigint_unreduced(n) ==
    LET n_reduced == BigInt_to_bytes_array(n, ScalarLength)
        scalar == Scalar_from_repr(n_reduced.value)
    IN  IF ~n_reduced.is_some
        THEN Panic("n mod curve_order must be equal or less than 32 bytes")
        ELSE IF ~scalar.is_some THEN Panic("unwrap")
        ELSE Value(TScalar(Sm2Scalar("from_bigint", scalar.value)))

Sm2Scalar_from_bigint(n) ==
    LET curve_order == Sm2Scalar_group_order
        n_reduced == BigInt_to_bytes_array(BigInt_modulus(n, curve_order), ScalarLength)
        scalar == Scalar_from_repr(n_reduced.value)
    IN  IF ~n_reduced.is_some
        THEN Panic("n mod curve_order must be equal or less than 32 bytes")
        ELSE IF ~scalar.is_some THEN Panic("unwrap")
        ELSE Value(TScalar(Sm2Scalar("from_bigint", scalar.value)))

Sm2Scalar_to_bigint(s) == BigInt_from_bytes(Scalar_to_bytes(s.fe))

\* serialize without the padding to the fixed width
Sm2Scalar_serialize_unpadded(s) == BigInt_to_bytes(s.fe)

Sm2Scalar_serialize(s) == Scalar_to_bytes(s.fe)

\* deserialize that reduces a non-canonical encoding instead of rejecting it
Sm2Scalar_deserialize_reducing(b) ==
    IF Len(b) # ScalarLength THEN Err("DeserializationError")
    ELSE Ok(TScalar(Sm2Scalar("deserialize", Scalar_from_repr(b).value % GROUP_ORDER)))

Sm2Scalar_deserialize(b) ==
    IF Len(b) # ScalarLength THEN Err("DeserializationError")
    ELSE
        LET scalar == Scalar_from_repr(b)
        IN  IF scalar.is_some
            THEN Ok(TScalar(Sm2Scalar("deserialize", scalar.value)))
            ELSE Err("DeserializationError")

Sm2Scalar_add(s, other) == Sm2Scalar("add", Scalar_add(s.fe, other.fe))

Sm2Scalar_mul(s, other) == Sm2Scalar("mul", Scalar_mul(s.fe, other.fe))

Sm2Scalar_sub(s, other) == Sm2Scalar("sub", Scalar_sub(s.fe, other.fe))

Sm2Scalar_neg(s) == Sm2Scalar("sub", Scalar_neg(s.fe))

\* invert that takes the engine's value without looking at is_some
Sm2Scalar_invert_unchecked(s) ==
    Some(TScalar(Sm2Scalar("invert", Scalar_invert(s.fe).value)))

Sm2Scalar_invert(s) ==
    LET inv == Scalar_invert(s.fe)
    IN  IF inv.is_some THEN Some(TScalar(Sm2Scalar("invert", inv.value))) ELSE None

Sm2Scalar_add_assign(s, other) == Sm2Scalar("add_assign", Scalar_add(s.fe, other.fe))

Sm2Scalar_mul_assign(s, other) == Sm2Scalar("mul_assign", Scalar_mul(s.fe, other.fe))

Sm2Scalar_sub_assign(s, other) == Sm2Scalar("sub_assign", Scalar_sub(s.fe, other.fe))

Sm2Scalar_from_underlying(u) == Sm2Scalar("from_underlying", u)

\* impl PartialEq for Sm2Scalar
Sm2Scalar_eq(s, other) == s.fe = other.fe

----------------------------------------------------------------------------
(* impl ECPoint for Sm2Point                                                *)

Sm2Point_zero == Sm2Point("zero", AffineIdentity)

Sm2Point_is_zero(p) == Affine_is_identity(p.ge)

\* static ref GENERATOR
GENERATOR == Sm2Point("generator", AffineGenerator)

Sm2Point_generator == GENERATOR

Sm2Point_base_point2 == GENERATOR

\* from_coords that takes the decoded value without looking at is_some
Sm2Point_from_coords_unchecked(x, y) ==
    LET x_arr == BigInt_to_bytes_array(x, ScalarLength)
        y_arr == BigInt_to_bytes_array(y, ScalarLength)
        ge == Affine_from_encoded_point(
                EncodedPoint_from_affine_coordinates(x_arr.value, y_arr.value, FALSE))
    IN  IF ~x_arr.is_some THEN Err("NotOnCurve")
        ELSE IF ~y_arr.is_some THEN Err("NotOnCurve")
        ELSE Ok(TPoint(Sm2Point("from_coords", ge.value)))

Sm2Point_from_coords(x, y) ==
    LET x_arr == BigInt_to_bytes_array(x, ScalarLength)
        y_arr == BigInt_to_bytes_array(y, ScalarLength)
        ge == Affine_from_encoded_point(
                EncodedPoint_from_affine_coordinates(x_arr.value, y_arr.value, FALSE))
    IN  IF ~x_arr.is_some THEN Err("NotOnCurve")
        ELSE IF ~y_arr.is_some THEN Err("NotOnCurve")
        ELSE IF ge.is_some THEN Ok(TPoint(Sm2Point("from_coords", ge.value)))
        ELSE Err("NotOnCurve")

Sm2Point_x_coord(p) ==
    LET x == EncodedPoint_x(Affine_to_encoded_point(p.ge, FALSE))
    IN  IF x.is_some THEN Some(TInt(BigInt_from_bytes(x.value))) ELSE None

Sm2Point_y_coord(p) ==
    LET y == EncodedPoint_y(Affine_to_encoded_point(p.ge, FALSE))
    IN  IF y.is_some THEN Some(TInt(BigInt_from_bytes(y.value))) ELSE None

Sm2Point_coords(p) ==
    LET encoded == Affine_to_encoded_point(p.ge, FALSE)
        x == EncodedPoint_x(encoded)
        y == EncodedPoint_y(encoded)
    IN  IF ~x.is_some THEN None
        ELSE IF ~y.is_some THEN None
        ELSE Some(TCoords(BigInt_from_bytes(x.value), BigInt_from_bytes(y.value)))

\* GenericArray::from_slice asserts that the slice has the array's length
GenericArray_from_slice(slice, N) ==
    IF Len(slice) = N THEN Value(TBytes(slice)) ELSE Panic("from_slice: length mismatch")

\* serialize_compressed that always writes the even-y tag
Sm2Point_serialize_compressed_even_tag(p) ==
    IF Sm2Point_is_zero(p)
    THEN GenericArray_from_slice(ZeroBytes(CompressedPointLength), CompressedPointLength)
    ELSE GenericArray_from_slice(<< 2 >> \o FieldElement_to_repr(p.ge.x),
                                 CompressedPointLength)

Sm2Point_serialize_compressed(p) ==
    IF Sm2Point_is_zero(p)
    THEN GenericArray_from_slice(ZeroBytes(CompressedPointLength), CompressedPointLength)
    ELSE GenericArray_from_slice(Affine_to_encoded_point(p.ge, TRUE), CompressedPointLength)

Sm2Point_serialize_uncompressed(p) ==
    IF Sm2Point_is_zero(p)
    THEN GenericArray_from_slice(ZeroBytes(UncompressedPointLength), UncompressedPointLength)
    ELSE GenericArray_from_slice(Affine_to_encoded_point(p.ge, FALSE), UncompressedPointLength)

\* deserialize without the all-zero special case: plain SEC1 decoding
Sm2Point_deserialize_sec1_only(b) ==
    LET encoded == EncodedPoint_from_bytes(b)
        affine_point == Affine_from_encoded_point(encoded.value)
    IN  IF ~encoded.is_ok THEN Err("DeserializationError")
        ELSE IF ~affine_point.is_some THEN Panic("unwrap")
        ELSE Ok(TPoint(Sm2Point("from_bytes", affine_point.value)))

Sm2Point_deserialize(b) ==
    IF b = ZeroBytes(CompressedPointLength) \/ b = ZeroBytes(UncompressedPointLength)
    THEN Ok(TPoint(Sm2Point("from_bytes", Sm2Point_zero.ge)))
    ELSE
        LET encoded == EncodedPoint_from_bytes(b)
            affine_point == Affine_from_encoded_point(encoded.value)
        IN  IF ~encoded.is_ok THEN Err("DeserializationError")
            ELSE IF ~affine_point.is_some THEN Panic("unwrap")
            ELSE Ok(TPoint(Sm2Point("from_bytes", affine_point.value)))

Sm2Point_check_point_order_equals_group_order(p) == ~Sm2Point_is_zero(p)

Sm2Point_scalar_mul(p, scalar) == Sm2Point("scalar_mul", Affine_mul(p.ge, scalar.fe))

Sm2Point_generator_mul(scalar) ==
    Sm2Point("generator_mul", Sm2Point_scalar_mul(Sm2Point_generator, scalar).ge)

Sm2Point_add_point(p, other) == Sm2Point("add_point", Affine_add(p.ge, other.ge))

Sm2Point_sub_point(p, other) == Sm2Point("sub", Affine_add(p.ge, Affine_neg(other.ge)))

Sm2Point_neg_point(p) == Sm2Point("neg", Affine_neg(p.ge))

Sm2Point_scalar_mul_assign(p, scalar) == Sm2Point("mul_assign", Affine_mul(p.ge, scalar.fe))

Sm2Point_from_underlying(ge) == Sm2Point("from_underlying", ge)

\* impl PartialEq for Sm2Point
Sm2Point_eq(p, other) == p.ge = other.ge

----------------------------------------------------------------------------
(* The caller: one thread that holds a current value and calls the API on it *)

\* the part of a value that equality and the wire formats see: fe, ge
Strip(t) ==
    [t EXCEPT !.scalar = Sm2Scalar("", t.scalar.fe), !.point = Sm2Point("", t.point.ge)]

NoPrev == [op |-> "none", in |-> Nothing]

\* a call and, when it took a single operand, the value it was applied to
Summary(c) ==
    [op |-> c.op,
     in |-> IF c.arg.ty = "None" THEN Strip(c.self)
            ELSE IF c.self.ty = "None" THEN Strip(c.arg)
            ELSE Nothing]

\* what `let v = <call>` binds: the value inside Ok, Some or a plain return
Bound(ret) == IF ret.tag \in {"Value", "Ok", "Some"} THEN ret.val ELSE Nothing

\* byte strings, integers and coordinates that arrive from outside
Inputs == UNION {BytesOfLen(k) : k \in 0 .. MaxLen}
BigInts == (0 - MaxBigInt) .. MaxBigInt
Coordinates == 0 .. MaxBigInt

\* FieldBytes::default()
FieldBytes_default == ZeroBytes(ScalarLength)

\* scalars the caller has at hand as second operands
SmallScalars ==
    {Sm2Scalar_zero, Sm2Scalar_from_underlying(1), Sm2Scalar_from_underlying(2),
     Sm2Scalar_from_underlying(GROUP_ORDER - 1)}

\* ... and the receiver of the last call, which a unary method only borrowed
ScalarOperands ==
    SmallScalars
        \cup (IF call.self.ty = "Scalar" /\ call.arg.ty = "None"
              THEN {call.self.scalar} ELSE {})

\* points the caller has at hand as second operands
PointOperands ==
    {Sm2Point_zero, Sm2Point_generator}
        \cup (IF call.self.ty = "Point" /\ call.arg.ty = "None"
              THEN {call.self.point} ELSE {})

\* the record of a call
Call(op, self, arg, chained, discarded, ret) ==
    [op |-> op, self |-> self, arg |-> arg, chained |-> chained,
     discarded |-> discarded, ret |-> ret]

Init ==
    /\ \/ \E b \in Inputs : cur = TBytes(b)
       \/ \E n \in BigInts : cur = TInt(n)
       \/ \E x \in Coordinates, y \in Coordinates : cur = TCoords(x, y)
    /\ call = Call("input", Nothing, Nothing, "none", 0, Value(Unit))
    /\ prev = NoPrev
    /\ pc = "idle"
    /\ bytes = FieldBytes_default
    /\ retries = 0

\* a call returns (or panics): the caller binds the result
Return(op, self, arg, chained, ret, newcur) ==
    /\ call' = Call(op, self, arg, chained, 0, ret)
    /\ cur' = IF ret.tag = "Panic" THEN Nothing ELSE newcur
    /\ pc' = IF ret.tag = "Panic" THEN "panicked" ELSE "idle"
    /\ prev' = IF chained = "none" THEN NoPrev ELSE Summary(call)
    /\ UNCHANGED <<bytes, retries>>

\* the caller lets its current value go out of scope
Drop ==
    /\ pc = "idle" /\ cur.ty # "None"
    /\ call' = Call("drop", Nothing, Nothing, "none", 0, Value(Unit))
    /\ cur' = Nothing
    /\ prev' = NoPrev
    /\ UNCHANGED <<pc, bytes, retries>>

(* Sm2Scalar::random: thread_rng(), then the rejection-sampling loop *)

RandomCall ==
    /\ pc = "idle" /\ cur.ty = "None"
    /\ pc' = "loop"
    /\ call' = Call("Sm2Scalar::random", Nothing, Nothing, "none", 0, Pending)
    /\ cur' = Nothing
    /\ prev' = NoPrev
    /\ bytes' = FieldBytes_default
    /\ retries' = 0

\* let mut bytes = FieldBytes::default(); rng.fill(&mut bytes[..]);
RandomFill ==
    /\ pc = "loop"
    /\ \E sample \in BytesOfLen(ScalarLength) : bytes' = sample
    /\ pc' = "from_repr"
    /\ UNCHANGED <<call, cur, prev, retries>>

\* a loop body that accepts every sample and reduces it modulo the group order
RandomTest_reducing ==
    /\ pc = "from_repr"
    /\ LET s == Sm2Scalar("random", BigInt_from_bytes(bytes) % GROUP_ORDER)
       IN  /\ call' = Call("Sm2Scalar::random", Nothing, TBytes(bytes), "none",
                           retries, Value(TScalar(s)))
           /\ cur' = TScalar(s)
           /\ pc' = "idle"
           /\ bytes' = FieldBytes_default
           /\ retries' = 0
           /\ UNCHANGED prev

\* let element = Scalar::from_repr(bytes); if element.is_some() { break element.unwrap() }
\* The returned call records the accepted sample and the count of discarded ones.
RandomTest ==
    /\ pc = "from_repr"
    /\ LET element == Scalar_from_repr(bytes)
       IN  IF element.is_some
           THEN /\ call' = Call("Sm2Scalar::random", Nothing, TBytes(bytes), "none",
                                retries, Value(TScalar(Sm2Scalar_random_result(element))))
                /\ cur' = TScalar(Sm2Scalar_random_result(element))
                /\ pc' = "idle"
                /\ bytes' = FieldBytes_default
                /\ retries' = 0
                /\ UNCHANGED prev
           ELSE /\ pc' = "loop"
                /\ retries' = IF retries < MaxRetries THEN retries + 1 ELSE retries
                /\ UNCHANGED <<call, cur, prev, bytes>>

(* the other operations of Sm2Scalar *)

ScalarZero ==
    /\ pc = "idle" /\ cur.ty = "None"
    /\ LET ret == Value(TScalar(Sm2Scalar_zero))
       IN  Return("Sm2Scalar::zero", Nothing, Nothing, "none", ret, Bound(ret))

ScalarIsZero ==
    /\ pc = "idle" /\ cur.ty = "Scalar"
    /\ LET ret == Value(TBool(Sm2Scalar_is_zero(cur.scalar)))
       IN  Return("Sm2Scalar::is_zero", cur, Nothing, "self", ret, Bound(ret))

ScalarGroupOrder ==
    /\ pc = "idle" /\ cur.ty = "None"
    /\ LET ret == Value(TInt(Sm2Scalar_group_order))
       IN  Return("Sm2Scalar::group_order", Nothing, Nothing, "none", ret, Bound(ret))

ScalarFromBigint ==
    /\ pc = "idle" /\ cur.ty = "BigInt"
    /\ LET ret == Sm2Scalar_from_bigint(cur.int)
       IN  Return("Sm2Scalar::from_bigint", Nothing, cur, "arg", ret, Bound(ret))

ScalarToBigint ==
    /\ pc = "idle" /\ cur.ty = "Scalar"
    /\ LET ret == Value(TInt(Sm2Scalar_to_bigint(cur.scalar)))
       IN  Return("Sm2Scalar::to_bigint", cur, Nothing, "self", ret, Bound(ret))

ScalarSerialize ==
    /\ pc = "idle" /\ cur.ty = "Scalar"
    /\ LET ret == Value(TBytes(Sm2Scalar_serialize(cur.scalar)))
       IN  Return("Sm2Scalar::serialize", cur, Nothing, "self", ret, Bound(ret))

ScalarDeserialize ==
    /\ pc = "idle" /\ cur.ty = "Bytes"
    /\ LET ret == Sm2Scalar_deserialize(cur.bytes)
       IN  Return("Sm2Scalar::deserialize", Nothing, cur, "arg", ret, Bound(ret))

\* a binary operation, with the current value as receiver or as the other operand
ScalarAdd ==
    /\ pc = "idle" /\ cur.ty = "Scalar"
    /\ \E other \in ScalarOperands :
          \/ LET ret == Value(TScalar(Sm2Scalar_add(cur.scalar, other)))
             IN  Return("Sm2Scalar::add", cur, TScalar(other), "self", ret, Bound(ret))
          \/ LET ret == Value(TScalar(Sm2Scalar_add(other, cur.scalar)))
             IN  Return("Sm2Scalar::add", TScalar(other), cur, "arg", ret, Bound(ret))

ScalarMul ==
    /\ pc = "idle" /\ cur.ty = "Scalar"
    /\ \E other \in ScalarOperands :
          \/ LET ret == Value(TScalar(Sm2Scalar_mul(cur.scalar, other)))
             IN  Return("Sm2Scalar::mul", cur, TScalar(other), "self", ret, Bound(ret))
          \/ LET ret == Value(TScalar(Sm2Scalar_mul(other, cur.scalar)))
             IN  Return("Sm2Scalar::mul", TScalar(other), cur, "arg", ret, Bound(ret))

ScalarSub ==
    /\ pc = "idle" /\ cur.ty = "Scalar"
    /\ \E other \in ScalarOperands :
          \/ LET ret == Value(TScalar(Sm2Scalar_sub(cur.scalar, other)))
             IN  Return("Sm2Scalar::sub", cur, TScalar(other), "self", ret, Bound(ret))
          \/ LET ret == Value(TScalar(Sm2Scalar_sub(other, cur.scalar)))
             IN  Return("Sm2Scalar::sub", TScalar(other), cur, "arg", ret, Bound(ret))

ScalarNeg ==
    /\ pc = "idle" /\ cur.ty = "Scalar"
    /\ LET ret == Value(TScalar(Sm2Scalar_neg(cur.scalar)))
       IN  Return("Sm2Scalar::neg", cur, Nothing, "self", ret, Bound(ret))

ScalarInvert ==
    /\ pc = "idle" /\ cur.ty = "Scalar"
    /\ LET ret == Sm2Scalar_invert(cur.scalar)
       IN  Return("Sm2Scalar::invert", cur, Nothing, "self", ret, Bound(ret))

\* the in-place operations return () and mutate the receiver
ScalarAddAssign ==
    /\ pc = "idle" /\ cur.ty = "Scalar"
    /\ \E other \in ScalarOperands :
          Return("Sm2Scalar::add_assign", cur, TScalar(other), "self", Value(Unit),
                 TScalar(Sm2Scalar_add_assign(cur.scalar, other)))

ScalarMulAssign ==
    /\ pc = "idle" /\ cur.ty = "Scalar"
    /\ \E other \in ScalarOperands :
          Return("Sm2Scalar::mul_assign", cur, TScalar(other), "self", Value(Unit),
                 TScalar(Sm2Scalar_mul_assign(cur.scalar, other)))

ScalarSubAssign ==
    /\ pc = "idle" /\ cur.ty = "Scalar"
    /\ \E other \in ScalarOperands :
          Return("Sm2Scalar::sub_assign", cur, TScalar(other), "self", Value(Unit),
                 TScalar(Sm2Scalar_sub_assign(cur.scalar, other)))

\* Sm2Scalar::from_underlying(*s.underlying_ref())
ScalarFromUnderlying ==
    /\ pc = "idle" /\ cur.ty = "Scalar"
    /\ LET ret == Value(TScalar(Sm2Scalar_from_underlying(cur.scalar.fe)))
       IN  Return("Sm2Scalar::from_underlying", Nothing, cur, "arg", ret, Bound(ret))

(* the operations of Sm2Point *)

PointZero ==
    /\ pc = "idle" /\ cur.ty = "None"
    /\ LET ret == Value(TPoint(Sm2Point_zero))
       IN  Return("Sm2Point::zero", Nothing, Nothing, "none", ret, Bound(ret))

PointIsZero ==
    /\ pc = "idle" /\ cur.ty = "Point"
    /\ LET ret == Value(TBool(Sm2Point_is_zero(cur.point)))
       IN  Return("Sm2Point::is_zero", cur, Nothing, "self", ret, Bound(ret))

PointGenerator ==
    /\ pc = "idle" /\ cur.ty = "None"
    /\ LET ret == Value(TPoint(Sm2Point_generator))
       IN  Return("Sm2Point::generator", Nothing, Nothing, "none", ret, Bound(ret))

PointBasePoint2 ==
    /\ pc = "idle" /\ cur.ty = "None"
    /\ LET ret == Value(TPoint(Sm2Point_base_point2))
       IN  Return("Sm2Point::base_point2", Nothing, Nothing, "none", ret, Bound(ret))

PointFromCoords ==
    /\ pc = "idle" /\ cur.ty = "Coords"
    /\ LET ret == Sm2Point_from_coords(cur.coords.x, cur.coords.y)
       IN  Return("Sm2Point::from_coords", Nothing, cur, "arg", ret, Bound(ret))

PointXCoord ==
    /\ pc = "idle" /\ cur.ty = "Point"
    /\ LET ret == Sm2Point_x_coord(cur.point)
       IN  Return("Sm2Point::x_coord", cur, Nothing, "self", ret, Bound(ret))

PointYCoord ==
    /\ pc = "idle" /\ cur.ty = "Point"
    /\ LET ret == Sm2Point_y_coord(cur.point)
       IN  Return("Sm2Point::y_coord", cur, Nothing, "self", ret, Bound(ret))

PointCoords ==
    /\ pc = "idle" /\ cur.ty = "Point"
    /\ LET ret == Sm2Point_coords(cur.point)
       IN  Return("Sm2Point::coords", cur, Nothing, "self", ret, Bound(ret))

PointSerializeCompressed ==
    /\ pc = "idle" /\ cur.ty = "Point"
    /\ LET ret == Sm2Point_serialize_compressed(cur.point)
       IN  Return("Sm2Point::serialize_compressed", cur, Nothing, "self", ret, Bound(ret))

PointSerializeUncompressed ==
    /\ pc = "idle" /\ cur.ty = "Point"
    /\ LET ret == Sm2Point_serialize_uncompressed(cur.point)
       IN  Return("Sm2Point::serialize_uncompressed", cur, Nothing, "self", ret, Bound(ret))

PointDeserialize ==
    /\ pc = "idle" /\ cur.ty = "Bytes"
    /\ LET ret == Sm2Point_deserialize(cur.bytes)
       IN  Return("Sm2Point::deserialize", Nothing, cur, "arg", ret, Bound(ret))

PointCheckOrder ==
    /\ pc = "idle" /\ cur.ty = "Point"
    /\ LET ret == Value(TBool(Sm2Point_check_point_order_equals_group_order(cur.point)))
       IN  Return("Sm2Point::check_point_order_equals_group_order", cur, Nothing,
                  "self", ret, Bound(ret))

PointScalarMul ==
    /\ pc = "idle" /\ cur.ty = "Point"
    /\ \E scalar \in SmallScalars :
          LET ret == Value(TPoint(Sm2Point_scalar_mul(cur.point, scalar)))
          IN  Return("Sm2Point::scalar_mul", cur, TScalar(scalar), "self", ret, Bound(ret))

PointGeneratorMul ==
    /\ pc = "idle" /\ cur.ty = "Scalar"
    /\ LET ret == Value(TPoint(Sm2Point_generator_mul(cur.scalar)))
       IN  Return("Sm2Point::generator_mul", Nothing, cur, "arg", ret, Bound(ret))

PointAdd ==
    /\ pc = "idle" /\ cur.ty = "Point"
    /\ \E other \in PointOperands :
          \/ LET ret == Value(TPoint(Sm2Point_add_point(cur.point, other)))
             IN  Return("Sm2Point::add_point", cur, TPoint(other), "self", ret, Bound(ret))
          \/ LET ret == Value(TPoint(Sm2Point_add_point(other, cur.point)))
             IN  Return("Sm2Point::add_point", TPoint(other), cur, "arg", ret, Bound(ret))

PointSub ==
    /\ pc = "idle" /\ cur.ty = "Point"
    /\ \E other \in PointOperands :
          \/ LET ret == Value(TPoint(Sm2Point_sub_point(cur.point, other)))
             IN  Return("Sm2Point::sub_point", cur, TPoint(other), "self", ret, Bound(ret))
          \/ LET ret == Value(TPoint(Sm2Point_sub_point(other, cur.point)))
             IN  Return("Sm2Point::sub_point", TPoint(other), cur, "arg", ret, Bound(ret))

PointNeg ==
    /\ pc = "idle" /\ cur.ty = "Point"
    /\ LET ret == Value(TPoint(Sm2Point_neg_point(cur.point)))
       IN  Return("Sm2Point::neg_point", cur, Nothing, "self", ret, Bound(ret))

PointScalarMulAssign ==
    /\ pc = "idle" /\ cur.ty = "Point"
    /\ \E scalar \in SmallScalars :
          Return("Sm2Point::scalar_mul_assign", cur, TScalar(scalar), "self", Value(Unit),
                 TPoint(Sm2Point_scalar_mul_assign(cur.point, scalar)))

\* Sm2Point::from_underlying(*p.underlying_ref())
PointFromUnderlying ==
    /\ pc = "idle" /\ cur.ty = "Point"
    /\ LET ret == Value(TPoint(Sm2Point_from_underlying(cur.point.ge)))
       IN  Return("Sm2Point::from_underlying", Nothing, cur, "arg", ret, Bound(ret))

Next ==
    \/ Drop
    \/ RandomCall \/ RandomFill \/ RandomTest
    \/ ScalarZero \/ ScalarIsZero \/ ScalarGroupOrder
    \/ ScalarFromBigint \/ ScalarToBigint
    \/ ScalarSerialize \/ ScalarDeserialize
    \/ ScalarAdd \/ ScalarMul \/ ScalarSub \/ ScalarNeg \/ ScalarInvert
    \/ ScalarAddAssign \/ ScalarMulAssign \/ ScalarSubAssign
    \/ ScalarFromUnderlying
    \/ PointZero \/ PointIsZero \/ PointGenerator \/ PointBasePoint2
    \/ PointFromCoords \/ PointXCoord \/ PointYCoord \/ PointCoords
    \/ PointSerializeCompressed \/ PointSerializeUncompressed \/ PointDeserialize
    \/ PointCheckOrder
    \/ PointScalarMul \/ PointGeneratorMul
    \/ PointAdd \/ PointSub \/ PointNeg \/ PointScalarMulAssign
    \/ PointFromUnderlying

Spec == Init /\ [][Next]_vars

\* a caller that starts with no value from outside
LiveInit ==
    /\ cur = Nothing
    /\ call = Call("drop", Nothing, Nothing, "none", 0, Value(Unit))
    /\ prev = NoPrev
    /\ pc = "idle"
    /\ bytes = FieldBytes_default
    /\ retries = 0

\* the loop of Sm2Scalar::random runs on: a sample is drawn, a drawn sample is tested
LiveSpec == LiveInit /\ [][Next]_vars /\ WF_vars(RandomFill) /\ WF_vars(RandomTest)

----------------------------------------------------------------------------
(* Properties                                                               *)

\* the integer a byte string encodes, most significant byte first
RECURSIVE BigEndianFrom(_, _)
BigEndianFrom(b, i) ==
    IF i > Len(b) THEN 0
    ELSE b[i] * (ByteBase ^ (Len(b) - i)) + BigEndianFrom(b, i + 1)

BigEndian(b) == BigEndianFrom(b, 1)

\* n mod m as the remainder of the floor division
FloorMod(n, m) ==
    CHOOSE r \in 0 .. (m - 1) :
        \E q \in (0 - (MaxBigInt + 1)) .. (MaxBigInt + 1) : n = q * m + r

\* whether the integers (x, y) satisfy y^2 = x^3 + ax + b modulo the field modulus
SatisfiesCurveEquation(x, y) ==
    (y * y - (x * x * x + EQUATION_A * x + EQUATION_B)) % FieldModulus = 0

\* a value of the affine type that is a valid point: the identity or an on-curve point
ValidPoint(P) == P = AffineIdentity \/ OnCurve(P)

AllZero(b) == \A i \in 1 .. Len(b) : b[i] = 0

\* a return value is Err(e)
IsErr(ret, e) == ret.tag = "Err" /\ ret.err = e

\* Every value the caller holds is well-formed: a scalar is a canonical
\* representative, a point is the identity or lies on the curve.
ValuesValid ==
    /\ cur.ty = "Scalar" => cur.scalar.fe \in 0 .. (GROUP_ORDER - 1)
    /\ cur.ty = "Point" => ValidPoint(cur.point.ge)

\* C1: Sm2Point::deserialize of any input returns Ok with a valid point (on the curve,
\* or the identity) or Err(DeserializationError); it never panics, in particular not
\* on a well-formed encoding whose coordinates are not on the curve.
C1_DeserializeReturnsPointOrErr ==
    call.op = "Sm2Point::deserialize" =>
        \/ IsErr(call.ret, "DeserializationError")
        \/ call.ret.tag = "Ok" /\ ValidPoint(call.ret.val.point.ge)

\* C2: Sm2Scalar::deserialize(b) is Err(DeserializationError) exactly when b is not
\* ScalarLength bytes long or encodes an integer >= the group order; otherwise it is
\* Ok with the scalar whose value is exactly that integer.
C2_ScalarDeserialize ==
    call.op = "Sm2Scalar::deserialize" =>
        LET b == call.arg.bytes
        IN  IF Len(b) # ScalarLength \/ BigEndian(b) >= GROUP_ORDER
            THEN IsErr(call.ret, "DeserializationError")
            ELSE /\ call.ret.tag = "Ok"
                 /\ call.ret.val.ty = "Scalar"
                 /\ call.ret.val.scalar.fe = BigEndian(b)

\* a non-canonical encoding of the right length was rejected
C2_Witness ==
    /\ call.op = "Sm2Scalar::deserialize"
    /\ Len(call.arg.bytes) = ScalarLength
    /\ BigEndian(call.arg.bytes) > GROUP_ORDER
    /\ call.ret.tag = "Err"

\* C3: Sm2Scalar::from_bigint(n) returns for every integer n (it does not panic), and
\* to_bigint of the result is n mod group_order, a value in [0, group_order).
C3_ReductionLaw ==
    /\ call.op = "Sm2Scalar::from_bigint" => call.ret.tag = "Value"
    /\ (call.op = "Sm2Scalar::to_bigint" /\ prev.op = "Sm2Scalar::from_bigint") =>
          /\ call.ret.val.int = FloorMod(prev.in.int, GROUP_ORDER)
          /\ call.ret.val.int \in 0 .. (GROUP_ORDER - 1)

\* to_bigint(from_bigint(n)) was computed for a negative n that is no multiple of the order
C3_Witness ==
    /\ call.op = "Sm2Scalar::to_bigint"
    /\ prev.op = "Sm2Scalar::from_bigint"
    /\ prev.in.int < 0 - GROUP_ORDER
    /\ call.ret.val.int # 0

\* C4: deserialize(serialize_compressed(p)) and deserialize(serialize_uncompressed(p))
\* return Ok(p), equality being that of the affine value.
C4_PointRoundTrip ==
    ( /\ call.op = "Sm2Point::deserialize"
      /\ prev.op \in {"Sm2Point::serialize_compressed", "Sm2Point::serialize_uncompressed"} )
    =>  /\ call.ret.tag = "Ok"
        /\ Sm2Point_eq(call.ret.val.point, prev.in.point)

\* a compressed encoding of a point with odd y was decoded
C4_Witness ==
    /\ call.op = "Sm2Point::deserialize"
    /\ prev.op = "Sm2Point::serialize_compressed"
    /\ prev.in.point.ge.infinity = 0
    /\ prev.in.point.ge.y % 2 = 1
    /\ call.ret.tag = "Ok"

\* C5: the identity serializes to CompressedPointLength zero bytes and to
\* UncompressedPointLength zero bytes; deserialize of either buffer is Ok(identity);
\* no other point serializes to an all-zero buffer.
C5_IdentityEncoding ==
    /\ call.op = "Sm2Point::serialize_compressed" =>
          /\ call.ret.tag = "Value"
          /\ IF call.self.point.ge = AffineIdentity
             THEN call.ret.val.bytes = ZeroBytes(CompressedPointLength)
             ELSE ~AllZero(call.ret.val.bytes)
    /\ call.op = "Sm2Point::serialize_uncompressed" =>
          /\ call.ret.tag = "Value"
          /\ IF call.self.point.ge = AffineIdentity
             THEN call.ret.val.bytes = ZeroBytes(UncompressedPointLength)
             ELSE ~AllZero(call.ret.val.bytes)
    /\ ( /\ call.op = "Sm2Point::deserialize"
         /\ AllZero(call.arg.bytes)
         /\ Len(call.arg.bytes) \in {CompressedPointLength, UncompressedPointLength} )
       => /\ call.ret.tag = "Ok"
          /\ call.ret.val.point.ge = AffineIdentity

\* the uncompressed encoding of the identity was decoded
C5_Witness ==
    /\ call.op = "Sm2Point::deserialize"
    /\ prev.op = "Sm2Point::serialize_uncompressed"
    /\ prev.in.point.ge = AffineIdentity
    /\ call.arg.bytes = ZeroBytes(UncompressedPointLength)
    /\ call.ret.tag = "Ok"

\* C6: Sm2Scalar::invert(a) is None exactly when a is zero, otherwise Some(b) with
\* mul(a, b) the scalar one.
C6_Invert ==
    /\ call.op = "Sm2Scalar::invert" =>
          IF call.self.scalar.fe = 0
          THEN call.ret.tag = "None"
          ELSE call.ret.tag = "Some"
    /\ ( /\ call.op = "Sm2Scalar::mul"
         /\ prev.op = "Sm2Scalar::invert"
         /\ call.chained = "arg"
         /\ call.self.scalar.fe = prev.in.scalar.fe )
       => call.ret.val.scalar.fe = 1

\* mul(a, invert(a)) was computed for an a other than zero and one
C6_Witness ==
    /\ call.op = "Sm2Scalar::mul"
    /\ prev.op = "Sm2Scalar::invert"
    /\ call.chained = "arg"
    /\ call.self.scalar.fe = prev.in.scalar.fe
    /\ prev.in.scalar.fe > 1

C8_OnlyTwoWireLengths ==
    call.op = "Sm2Point::deserialize" =>
        /\ Len(call.arg.bytes) \notin {CompressedPointLength, UncompressedPointLength}
              => IsErr(call.ret, "DeserializationError")
        /\ (call.ret.tag = "Ok" /\ call.ret.val.point.ge = AffineIdentity)
              => ( /\ AllZero(call.arg.bytes)
                   /\ Len(call.arg.bytes)
                        \in {CompressedPointLength, UncompressedPointLength} )

\* C9: serialize(s) is ScalarLength bytes that encode the value of s, a value in
\* [0, group_order), whatever the purpose tag of s; deserialize(serialize(s)) is Ok
\* of a scalar equal to s.
C9_ScalarRoundTrip ==
    /\ call.op = "Sm2Scalar::serialize" =>
          /\ call.ret.tag = "Value"
          /\ Len(call.ret.val.bytes) = ScalarLength
          /\ BigEndian(call.ret.val.bytes) \in 0 .. (GROUP_ORDER - 1)
          /\ BigEndian(call.ret.val.bytes) = call.self.scalar.fe
    /\ (call.op = "Sm2Scalar::deserialize" /\ prev.op = "Sm2Scalar::serialize") =>
          /\ call.ret.tag = "Ok"
          /\ Sm2Scalar_eq(call.ret.val.scalar, prev.in.scalar)

\* the encoding of a scalar that fills both bytes was decoded
C9_Witness ==
    /\ call.op = "Sm2Scalar::deserialize"
    /\ prev.op = "Sm2Scalar::serialize"
    /\ prev.in.scalar.fe >= ByteBase
    /\ prev.in.scalar.fe % ByteBase # 0
    /\ call.ret.tag = "Ok"

\* one step of Sm2Scalar::random: every iteration draws a sample; a sample >= the
\* group order is discarded and the loop draws again; a sample below it is returned
\* as it is; the call has no other outcome
C10_Step ==
    /\ pc = "loop" => pc' = "from_repr"
    /\ (pc = "from_repr" /\ BigEndian(bytes) >= GROUP_ORDER) =>
          /\ pc' = "loop"
          /\ call'.ret.tag = "Pending"
          /\ cur'.ty = "None"
    /\ (pc = "from_repr" /\ BigEndian(bytes) < GROUP_ORDER) =>
          /\ pc' = "idle"
          /\ call'.op = "Sm2Scalar::random"
          /\ call'.ret.tag = "Value"
          /\ call'.ret.val.scalar = Sm2Scalar("random", BigEndian(bytes))
          /\ cur' = call'.ret.val

\* C10: Sm2Scalar::random redraws until a sample is below the group order and returns
\* exactly that sample; once such a sample is drawn, the call returns.
C10_RejectionSampling ==
    /\ [][C10_Step]_vars
    /\ (pc = "from_repr" /\ BigEndian(bytes) < GROUP_ORDER)
          ~> (pc = "idle" /\ call.op = "Sm2Scalar::random" /\ call.ret.tag = "Value")

\* random returned after it had discarded at least one sample
C10_Witness ==
    /\ pc = "idle"
    /\ call.op = "Sm2Scalar::random"
    /\ call.discarded >= 1
    /\ call.ret.val.scalar.fe = BigEndian(call.arg.bytes)

====
